---- MODULE Spec2Model ----
(***************************************************************************)
(* LiveTex backend (src/src/index.ts): the directory scan, the WebSocket   *)
(* client registry, the file-system watcher's reaction and the file        *)
(* endpoint.                                                               *)
(*                                                                         *)
(* A string is a sequence of one-character strings, so that endsWith,      *)
(* includes, decodeURIComponent and localeCompare are computed character   *)
(* by character.  A path is a sequence of segments (each one a string).    *)
(***************************************************************************)
EXTENDS Integers, Sequences, FiniteSets, TLC

VARIABLES
    dir,        \* names readdirSync(PDF_DIR) returns
    broken,     \* names of dir for which statSync throws (dangling link)
    dirOk,      \* FALSE: readdirSync(PDF_DIR) itself throws
    mtime,      \* name -> stat.mtimeMs
    pending,    \* notifications the OS has queued for the watch callback
    nEvents,    \* number of notifications produced so far
    st,         \* connection -> "new" | "open" | "stale" | "closed"
    clients,    \* the Set `clients`, in insertion order
    inbox,      \* connection -> messages delivered to that peer
    expect,     \* history: connection -> the messages of the reactions that
                \* ran while it was registered
    last,       \* history: the handler that ran last, and whether it raised
    scanOut,    \* result of the last stand-alone listPdfs() call
    reqName,    \* req.params.name of the request to /api/pdf/:name
    files,      \* paths that exist, for the file endpoint
    resp,       \* the response of the file endpoint
    listResp,   \* the response of the list endpoint
    closeArg,   \* the connection a lone close handler is called with
    regHist,    \* history: `clients` before each lone close handler call
    fetchSt,    \* frontend: fetch("/api/pdfs") is "sent", "replied" or "done"
    fetchData,  \* the body the server answered the fetch with
    uiPos,      \* frontend: how many pushed messages onmessage has handled
    pdfs,       \* frontend state `pdfs`
    selectedPdf, \* frontend state `selectedPdf`: None or Some(name)
    refreshKey  \* frontend state `refreshKey`

vars == <<dir, broken, dirOk, mtime, pending, nEvents, st, clients, inbox,
          expect, last, scanOut, reqName, files, resp, listResp, closeArg,
          regHist, fetchSt, fetchData, uiPos, pdfs, selectedPdf, refreshKey>>

engineVars == <<dir, broken, dirOk, mtime, pending, nEvents, st, clients,
                inbox, expect, last>>
gatewayVars == <<reqName, files, resp>>
registryVars == <<closeArg, regHist>>
uiVars == <<fetchSt, fetchData, uiPos, pdfs, selectedPdf, refreshKey>>
otherVars == <<listResp, registryVars, uiVars>>

----------------------------------------------------------------------------
(* Bounds                                                                  *)

\* notifications the file system produces in one run
MaxEvents == 2

\* length of the part of a requested name that precedes its suffix
MaxStem == 3

\* modification times a scanned directory's files may carry
MaxMtime == 2
MaxCloses == 2      \* close handler calls for one connection, on their own

----------------------------------------------------------------------------
(* Strings                                                                 *)

DotPdf == <<".", "p", "d", "f">>
DotTxt == <<".", "t", "x", "t">>

\* String.prototype.endsWith
EndsWith(s, suf) ==
    /\ Len(s) >= Len(suf)
    /\ SubSeq(s, Len(s) - Len(suf) + 1, Len(s)) = suf

\* String.prototype.includes
Includes(s, sub) ==
    \E i \in 1..(Len(s) - Len(sub) + 1) : SubSeq(s, i, i + Len(sub) - 1) = sub

Range(s) == {s[i] : i \in 1..Len(s)}

APdf == <<"a">> \o DotPdf
BPdf == <<"b">> \o DotPdf
UpperBPdf == <<"B">> \o DotPdf
NTxt == <<"n">> \o DotTxt

\* the names the watched directory holds while the watcher runs
DirNames == {APdf, NTxt}

\* the names a directory scanned on its own may hold
ScanNames == DirNames \cup {BPdf, UpperBPdf}

\* PDF_DIR, default "./pdfs", as path.join normalises it
PDF_DIR == << <<"p", "d", "f", "s">> >>

\* path.join(PDF_DIR, name) for a name that is a single segment
JoinSegment(root, name) == Append(root, name)

----------------------------------------------------------------------------
(* String.prototype.localeCompare (default collation): strings differ      *)
(* first by their letters regardless of case, punctuation before digits    *)
(* before letters; strings equal up to case differ by case, the lower-case *)
(* letter first.                                                           *)

CollationOrder ==
    <<"_", ".", "/", "\"", "*", "%", "^", "2", "5",
      "a", "b", "d", "e", "f", "n", "p", "r", "t", "u", "x", "z">>

Fold(ch) ==
    CASE ch = "A" -> "a" [] ch = "B" -> "b" [] ch = "R" -> "r"
      [] ch = "U" -> "u" [] ch = "Z" -> "z" [] OTHER -> ch

IsUpper(ch) == Fold(ch) # ch

Primary(ch) == CHOOSE i \in 1..Len(CollationOrder) : CollationOrder[i] = Fold(ch)

Tertiary(ch) == IF IsUpper(ch) THEN 1 ELSE 0

\* lexicographic comparison of two strings by the weight w: -1, 0 or 1
RECURSIVE CompareBy(_, _, _, _)
CompareBy(a, b, i, upper) ==
    LET w(ch) == IF upper THEN Tertiary(ch) ELSE Primary(ch)
    IN  IF i > Len(a) /\ i > Len(b) THEN 0
        ELSE IF i > Len(a) THEN -1
        ELSE IF i > Len(b) THEN 1
        ELSE IF w(a[i]) < w(b[i]) THEN -1
        ELSE IF w(a[i]) > w(b[i]) THEN 1
        ELSE CompareBy(a, b, i + 1, upper)

localeCompare(a, b) ==
    LET p == CompareBy(a, b, 1, FALSE)
    IN  IF p # 0 THEN p ELSE CompareBy(a, b, 1, TRUE)

\* Array.prototype.sort((a, b) => a.name.localeCompare(b.name)) of the
\* entries E (their names are distinct)
RECURSIVE SortByName(_)
SortByName(E) ==
    IF E = {} THEN <<>>
    ELSE LET m == CHOOSE x \in E :
                     \A y \in E : localeCompare(x.name, y.name) <= 0
         IN  <<m>> \o SortByName(E \ {m})

----------------------------------------------------------------------------
(* listPdfs: readdirSync, filter, map with statSync, sort; any exception   *)
(* inside the try block gives [].                                          *)

PdfEntry(name, mt) ==
    [name |-> name, path |-> JoinSegment(PDF_DIR, name), modified |-> mt[name]]

ListPdfs(d, b, ok, mt) ==
    IF ~ok THEN <<>>                                  \* readdirSync threw
    ELSE LET matching == {f \in d : EndsWith(f, DotPdf)}
         IN  IF matching \cap b # {} THEN <<>>        \* statSync threw
             ELSE SortByName({PdfEntry(f, mt) : f \in matching})

listPdfs == ListPdfs(dir, broken, dirOk, mtime)

\* scanOut before and after a stand-alone call of listPdfs()
NoScan == [done |-> FALSE, out |-> <<>>]
Scanned(out) == [done |-> TRUE, out |-> out]

----------------------------------------------------------------------------
(* The registry `clients` and the sends                                    *)

Conns == {"c1", "c2"}

\* Set.prototype.add and Set.prototype.delete on a Set kept in insertion order
SetAdd(s, c) == IF c \in Range(s) THEN s ELSE Append(s, c)
\* a delete that removes nothing
SetDelete_Keeps(s, c) == s

\* as SetDelete, had the registry been an array emptied with
\* splice(indexOf(c), 1): an index of -1 removes the last element
SetDelete_Splice(s, c) ==
    IF c \in Range(s) THEN SelectSeq(s, LAMBDA x : x # c)
    ELSE IF s = <<>> THEN s ELSE SubSeq(s, 1, Len(s) - 1)

SetDelete(s, c) == SelectSeq(s, LAMBDA x : x # c)

PdfsUpdated(fs) == [type |-> "pdfs-updated", files |-> fs]
PdfChanged(n) == [type |-> "pdf-changed", name |-> n]

\* ws.send(msg) on connection c.  The peer of an open connection gets the
\* message.  A connection whose peer is gone cannot get it: the call then
\* either returns without delivering or throws, as `throws` says.
Send(c, box, msg, throws) ==
    IF st[c] = "open"
    THEN [box |-> [box EXCEPT ![c] = Append(@, msg)], raised |-> FALSE]
    ELSE [box |-> box, raised |-> c \in throws]

\* clients.forEach(ws => ws.send(msg)): in insertion order; an exception
\* thrown by the callback ends the iteration and propagates.
RECURSIVE ForEachSend(_, _, _, _)
ForEachSend(cs, box, msg, throws) ==
    IF cs = <<>> THEN [box |-> box, raised |-> FALSE]
    ELSE LET r == Send(Head(cs), box, msg, throws)
         IN  IF r.raised THEN r
             ELSE ForEachSend(Tail(cs), r.box, msg, throws)

\* broadcastPdfs()
broadcastPdfs(box, throws) ==
    ForEachSend(clients, box, PdfsUpdated(listPdfs), throws)

----------------------------------------------------------------------------
(* The watch callback                                                      *)

\* a notification's filename may be absent: None, or Some(name)
None == <<>>
Some(n) == <<n>>

\* a filter that only asks for a filename
Qualifies_AnyName(filename) == filename # None

\* filename?.endsWith(".pdf")
Qualifies(filename) == filename # None /\ EndsWith(filename[1], DotPdf)

\* the body of the callback for one notification; t1 and t2 are the stale
\* connections whose send throws in the first and in the second forEach
Reaction(ntf, t1, t2) ==
    IF ~Qualifies(ntf.filename) THEN [box |-> inbox, raised |-> FALSE]
    ELSE LET r == broadcastPdfs(inbox, t1)
         IN  IF r.raised THEN r
             ELSE ForEachSend(clients, r.box, PdfChanged(ntf.filename[1]), t2)

\* what every registered connection is due from the callback's run for ntf
Expected(ntf) ==
    IF ~Qualifies(ntf.filename) THEN expect
    ELSE [c \in Conns |->
            IF c \in Range(clients)
            THEN expect[c] \o <<PdfsUpdated(listPdfs), PdfChanged(ntf.filename[1])>>
            ELSE expect[c]]

\* `last` after any step that is not a run of the watch callback
Other == [op |-> "other", filename |-> None, raised |-> FALSE]

StaleClients == {c \in Range(clients) : st[c] # "open"}

\* the sets of stale clients whose send may throw
ThrowSets == {t \in SUBSET Conns : t \subseteq StaleClients}

\* as WatchCallback, had the callback dropped from the registry the
\* connections whose send threw
WatchCallback_Prunes ==
    /\ pending # <<>>
    /\ \E t1, t2 \in ThrowSets :
         LET r == Reaction(Head(pending), t1, t2)
         IN  /\ inbox' = r.box
             /\ last' = [op |-> "watch", filename |-> Head(pending).filename,
                         raised |-> r.raised]
             /\ clients' = IF r.raised
                            THEN SelectSeq(clients, LAMBDA x : x \notin t1 \cup t2)
                            ELSE clients
    /\ expect' = Expected(Head(pending))
    /\ pending' = Tail(pending)
    /\ UNCHANGED <<dir, broken, dirOk, mtime, nEvents, st>>
    /\ UNCHANGED <<scanOut, reqName, files, resp>>
    /\ UNCHANGED otherVars

\* One run of the callback, for the oldest queued notification.  An
\* exception leaves the callback (last.raised); the server keeps running.
WatchCallback ==
    /\ pending # <<>>
    /\ \E t1, t2 \in ThrowSets :
         LET r == Reaction(Head(pending), t1, t2)
         IN  /\ inbox' = r.box
             /\ last' = [op |-> "watch", filename |-> Head(pending).filename,
                         raised |-> r.raised]
    /\ expect' = Expected(Head(pending))
    /\ pending' = Tail(pending)
    /\ UNCHANGED <<dir, broken, dirOk, mtime, nEvents, st, clients>>
    /\ UNCHANGED <<scanOut, reqName, files, resp>>
    /\ UNCHANGED otherVars

----------------------------------------------------------------------------
(* websocket.open and websocket.close                                      *)

\* an open handler that also sends the current list to the new client
WsOpen_SendsList(c) ==
    /\ st[c] = "new"
    /\ clients' = SetAdd(clients, c)
    /\ st' = [st EXCEPT ![c] = "open"]
    /\ last' = Other
    /\ inbox' = [inbox EXCEPT ![c] = Append(@, PdfsUpdated(listPdfs))]
    /\ UNCHANGED <<dir, broken, dirOk, mtime, pending, nEvents, expect>>
    /\ UNCHANGED <<scanOut, reqName, files, resp>>
    /\ UNCHANGED otherVars

WsOpen(c) ==
    /\ st[c] = "new"
    /\ clients' = SetAdd(clients, c)
    /\ st' = [st EXCEPT ![c] = "open"]
    /\ last' = Other
    /\ UNCHANGED <<dir, broken, dirOk, mtime, pending, nEvents, inbox, expect>>
    /\ UNCHANGED <<scanOut, reqName, files, resp>>
    /\ UNCHANGED otherVars

WsClose(c) ==
    /\ st[c] \in {"open", "stale"}
    /\ clients' = SetDelete(clients, c)
    /\ st' = [st EXCEPT ![c] = "closed"]
    /\ last' = Other
    /\ UNCHANGED <<dir, broken, dirOk, mtime, pending, nEvents, inbox, expect>>
    /\ UNCHANGED <<scanOut, reqName, files, resp>>
    /\ UNCHANGED otherVars

----------------------------------------------------------------------------
(* The environment: the peers and the file system                          *)

\* the peer of c goes away; the close handler has not run yet
PeerGone(c) ==
    /\ st[c] = "open"
    /\ st' = [st EXCEPT ![c] = "stale"]
    /\ last' = Other
    /\ UNCHANGED <<dir, broken, dirOk, mtime, pending, nEvents, clients, inbox, expect>>
    /\ UNCHANGED <<scanOut, reqName, files, resp>>
    /\ UNCHANGED otherVars

Notify(event, filename) ==
    /\ nEvents < MaxEvents
    /\ nEvents' = nEvents + 1
    /\ pending' = Append(pending, [event |-> event, filename |-> filename])
    /\ last' = Other

\* a file is created or rewritten
WriteFile(n) ==
    /\ Notify(IF n \in dir THEN "change" ELSE "rename", Some(n))
    /\ dir' = dir \cup {n}
    /\ broken' = broken \ {n}
    /\ mtime' = [mtime EXCEPT ![n] = nEvents + 1]
    /\ UNCHANGED <<dirOk, st, clients, inbox, expect>>
    /\ UNCHANGED <<scanOut, reqName, files, resp>>
    /\ UNCHANGED otherVars

\* a file is removed
RemoveFile(n) ==
    /\ n \in dir
    /\ Notify("rename", Some(n))
    /\ dir' = dir \ {n}
    /\ broken' = broken \ {n}
    /\ UNCHANGED <<dirOk, mtime, st, clients, inbox, expect>>
    /\ UNCHANGED <<scanOut, reqName, files, resp>>
    /\ UNCHANGED otherVars

\* a name becomes a link whose target is missing: readdir lists it, stat fails
DangleFile(n) ==
    /\ Notify("rename", Some(n))
    /\ dir' = dir \cup {n}
    /\ broken' = broken \cup {n}
    /\ UNCHANGED <<dirOk, mtime, st, clients, inbox, expect>>
    /\ UNCHANGED <<scanOut, reqName, files, resp>>
    /\ UNCHANGED otherVars

\* a notification that carries no filename
Unnamed ==
    /\ Notify("change", None)
    /\ UNCHANGED <<dir, broken, dirOk, mtime, st, clients, inbox, expect>>
    /\ UNCHANGED <<scanOut, reqName, files, resp>>
    /\ UNCHANGED otherVars

----------------------------------------------------------------------------
(* decodeURIComponent                                                      *)

IsHex(ch) ==
    ch \in {"0", "1", "2", "3", "4", "5", "6", "7", "8", "9",
            "a", "b", "c", "d", "e", "f", "A", "B", "C", "D", "E", "F"}

HexVal(ch) ==
    CASE ch = "0" -> 0 [] ch = "1" -> 1 [] ch = "2" -> 2 [] ch = "3" -> 3
      [] ch = "4" -> 4 [] ch = "5" -> 5 [] ch = "6" -> 6 [] ch = "7" -> 7
      [] ch = "8" -> 8 [] ch = "9" -> 9
      [] ch \in {"a", "A"} -> 10 [] ch \in {"b", "B"} -> 11
      [] ch \in {"c", "C"} -> 12 [] ch \in {"d", "D"} -> 13
      [] ch \in {"e", "E"} -> 14 [] ch \in {"f", "F"} -> 15

\* the character of an ASCII code (those the model's escapes can spell)
AsciiChar(b) ==
    CASE b = 34 -> "\"" [] b = 37 -> "%" [] b = 42 -> "*" [] b = 46 -> "."
      [] b = 47 -> "/"  [] b = 82 -> "R" [] b = 85 -> "U" [] b = 90 -> "Z"
      [] b = 94 -> "^"  [] b = 95 -> "_" [] b = 97 -> "a" [] b = 101 -> "e"
      [] b = 102 -> "f" [] OTHER -> "\\x"

\* a character outside ASCII, whichever it is
NonAscii == "\\u"

\* an escape "%XY" at the head of s
HasEscape(s) == Len(s) >= 3 /\ s[1] = "%" /\ IsHex(s[2]) /\ IsHex(s[3])
EscapeByte(s) == 16 * HexVal(s[2]) + HexVal(s[3])

\* continuation bytes a UTF-8 lead byte announces; -1 for no lead byte
Continuations(b) ==
    IF b >= 194 /\ b <= 223 THEN 1
    ELSE IF b >= 224 /\ b <= 239 THEN 2
    ELSE IF b >= 240 /\ b <= 244 THEN 3
    ELSE -1

\* s begins with n escaped continuation bytes (0x80..0xBF)
RECURSIVE HasContinuations(_, _)
HasContinuations(s, n) ==
    IF n = 0 THEN TRUE
    ELSE /\ HasEscape(s)
         /\ EscapeByte(s) >= 128 /\ EscapeByte(s) <= 191
         /\ HasContinuations(SubSeq(s, 4, Len(s)), n - 1)

URIError == [ok |-> FALSE, value |-> <<>>]

\* decodeURIComponent(s): the decoded string, or URIError for a "%" that
\* does not begin a well-formed escape of a UTF-8 sequence
RECURSIVE decodeURIComponent(_)
decodeURIComponent(s) ==
    IF s = <<>> THEN [ok |-> TRUE, value |-> <<>>]
    ELSE IF Head(s) # "%" THEN
        LET r == decodeURIComponent(Tail(s))
        IN  IF r.ok THEN [ok |-> TRUE, value |-> <<Head(s)>> \o r.value] ELSE r
    ELSE IF ~HasEscape(s) THEN URIError
    ELSE LET b == EscapeByte(s)
             n == IF b < 128 THEN 0 ELSE Continuations(b)
             rest == SubSeq(s, 4, Len(s))
         IN  IF n < 0 \/ ~HasContinuations(rest, n) THEN URIError
             ELSE LET r == decodeURIComponent(SubSeq(rest, 3 * n + 1, Len(rest)))
                      ch == IF b < 128 THEN AsciiChar(b) ELSE NonAscii
                  IN  IF r.ok THEN [ok |-> TRUE, value |-> <<ch>> \o r.value]
                      ELSE r

----------------------------------------------------------------------------
(* path.join                                                               *)

\* s.split("/")
RECURSIVE Split(_)
Split(s) ==
    IF \A i \in 1..Len(s) : s[i] # "/" THEN <<s>>
    ELSE LET k == CHOOSE i \in 1..Len(s) :
                     s[i] = "/" /\ \A j \in 1..(i - 1) : s[j] # "/"
         IN  <<SubSeq(s, 1, k - 1)>> \o Split(SubSeq(s, k + 1, Len(s)))

DotSeg == <<".">>
DotDotSeg == <<".", ".">>

\* path.normalize on segments: "" and "." vanish, ".." removes the segment
\* before it, or stays when there is none to remove (a relative path)
RECURSIVE Normalize(_, _)
Normalize(done, todo) ==
    IF todo = <<>> THEN done
    ELSE LET seg == Head(todo)
         IN  IF seg = <<>> \/ seg = DotSeg THEN Normalize(done, Tail(todo))
             ELSE IF seg = DotDotSeg /\ done # <<>> /\ done[Len(done)] # DotDotSeg
                  THEN Normalize(SubSeq(done, 1, Len(done) - 1), Tail(todo))
             ELSE Normalize(Append(done, seg), Tail(todo))

\* path.join(root, name)
Join(root, name) == Normalize(root, Split(name))

----------------------------------------------------------------------------
(* GET /api/pdf/:name                                                      *)

NoResp == [status |-> 0, path |-> <<>>]

\* a test that forgets the path separator
InvalidName_NoSeparatorTest(name) ==
    \/ ~EndsWith(name, DotPdf)
    \/ Includes(name, <<".", ".">>)

\* the test of line 127
InvalidName(name) ==
    \/ ~EndsWith(name, DotPdf)
    \/ Includes(name, <<"/">>)
    \/ Includes(name, <<".", ".">>)

\* file.exists()
Exists(path) == path \in files

\* the handler; an exception it throws leaves the server to answer 500
FileRoute(param) ==
    LET d == decodeURIComponent(param)
    IN  IF ~d.ok THEN [status |-> 500, path |-> <<>>]
        ELSE IF InvalidName(d.value) THEN [status |-> 400, path |-> <<>>]
        ELSE LET filePath == Join(PDF_DIR, d.value)
             IN  IF ~Exists(filePath) THEN [status |-> 404, path |-> <<>>]
                 ELSE [status |-> 200, path |-> filePath]

\* the names a request may carry: a stem over StemChars, then a suffix
StemChars == {"a", ".", "/", "%", "2", "5", "e", "f"}
Stems == UNION {[1..k -> StemChars] : k \in 0..MaxStem}
ReqNames == {stem \o suf : stem \in Stems, suf \in {DotPdf, DotTxt, <<>>}}

\* a string that can name a directory entry
IsFileName(s) == s # <<>> /\ s # DotSeg /\ s # DotDotSeg /\ ~Includes(s, <<"/">>)

\* the files that matter to a request for param: the entry of PDF_DIR with
\* that very name, and whatever the decoded name leads to
Candidates(param) ==
    LET d == decodeURIComponent(param)
    IN  {JoinSegment(PDF_DIR, n) : n \in {m \in {param} : IsFileName(m)}}
        \cup (IF d.ok /\ Join(PDF_DIR, d.value) # <<>>
              THEN {Join(PDF_DIR, d.value)} ELSE {})

----------------------------------------------------------------------------
(* The variables of the list endpoint, of a lone close handler call and of *)
(* the frontend, while none of them has done anything                      *)

\* GET /api/pdfs: Response.json({ files: listPdfs(), watchedDir: resolve(..) })
\* resolve() puts the working directory in front of a relative path
Cwd == << <<"c", "w", "d">> >>
Resolve(p) == Cwd \o p

NoListResp == [status |-> 0, files |-> <<>>, watchedDir |-> <<>>]

\* as ListRoute, had listPdfs no try/catch: the exception of readdirSync or
\* statSync leaves the handler and the server answers 500
ListRoute_NoCatch(d, b, ok, mt) ==
    IF ~ok \/ {f \in d : EndsWith(f, DotPdf)} \cap b # {}
    THEN [status |-> 500, files |-> <<>>, watchedDir |-> <<>>]
    ELSE [status |-> 200, files |-> ListPdfs(d, b, ok, mt),
          watchedDir |-> Resolve(PDF_DIR)]

ListRoute(d, b, ok, mt) ==
    [status |-> 200, files |-> ListPdfs(d, b, ok, mt),
     watchedDir |-> Resolve(PDF_DIR)]

InitOther ==
    /\ listResp = NoListResp
    /\ closeArg = "c1"
    /\ regHist = <<>>
    /\ fetchSt = "idle"
    /\ fetchData = <<>>
    /\ uiPos = 0
    /\ pdfs = <<>>
    /\ selectedPdf = None
    /\ refreshKey = 0

----------------------------------------------------------------------------
(* The engine: watcher, registry and their environment                     *)

Init ==
    /\ dir \in {{}, {APdf}}
    /\ broken = {}
    /\ dirOk = TRUE
    /\ mtime = [n \in ScanNames |-> 0]
    /\ pending = <<>>
    /\ nEvents = 0
    /\ st = [c \in Conns |-> "new"]
    /\ clients = <<>>
    /\ inbox = [c \in Conns |-> <<>>]
    /\ expect = [c \in Conns |-> <<>>]
    /\ last = Other
    /\ scanOut = NoScan
    /\ reqName = <<>>
    /\ files = {}
    /\ resp = NoResp
    /\ InitOther

Next ==
    \/ WatchCallback
    \/ \E c \in Conns : WsOpen(c)
    \/ \E c \in Conns : WsClose(c)
    \/ \E c \in Conns : PeerGone(c)
    \/ \E n \in DirNames : WriteFile(n)
    \/ \E n \in DirNames : RemoveFile(n)
    \/ \E n \in DirNames : DangleFile(n)
    \/ Unnamed

Spec == Init /\ [][Next]_vars

----------------------------------------------------------------------------
(* listPdfs() on its own: every directory over ScanNames, scanned once     *)

InitScan ==
    /\ dir \in SUBSET ScanNames
    /\ broken \in SUBSET dir
    /\ dirOk \in BOOLEAN
    /\ mtime \in [ScanNames -> 1..MaxMtime]
    /\ pending = <<>>
    /\ nEvents = 0
    /\ st = [c \in Conns |-> "new"]
    /\ clients = <<>>
    /\ inbox = [c \in Conns |-> <<>>]
    /\ expect = [c \in Conns |-> <<>>]
    /\ last = Other
    /\ scanOut = NoScan
    /\ reqName = <<>>
    /\ files = {}
    /\ resp = NoResp
    /\ InitOther

ScanCall ==
    /\ ~scanOut.done
    /\ scanOut' = Scanned(listPdfs)
    /\ UNCHANGED engineVars
    /\ UNCHANGED gatewayVars
    /\ UNCHANGED otherVars

\* one GET /api/pdfs
GetPdfs ==
    /\ listResp.status = 0
    /\ listResp' = ListRoute(dir, broken, dirOk, mtime)
    /\ UNCHANGED engineVars
    /\ UNCHANGED gatewayVars
    /\ UNCHANGED <<scanOut, registryVars, uiVars>>

NextScan == ScanCall \/ GetPdfs

SpecScan == InitScan /\ [][NextScan]_vars

----------------------------------------------------------------------------
(* websocket.close on its own: every registry over RegConns, and the close *)
(* handler called up to MaxCloses times with one connection                *)

RegConns == {"c1", "c2", "c3"}

Registries ==
    {r \in UNION {[1..n -> RegConns] : n \in 0..Cardinality(RegConns)} :
        \A i, j \in 1..Len(r) : i # j => r[i] # r[j]}

InitRegistry ==
    /\ dir = {}
    /\ broken = {}
    /\ dirOk = TRUE
    /\ mtime = [n \in ScanNames |-> 0]
    /\ pending = <<>>
    /\ nEvents = 0
    /\ st = [c \in Conns |-> "new"]
    /\ clients \in Registries
    /\ inbox = [c \in Conns |-> <<>>]
    /\ expect = [c \in Conns |-> <<>>]
    /\ last = Other
    /\ scanOut = NoScan
    /\ reqName = <<>>
    /\ files = {}
    /\ resp = NoResp
    /\ listResp = NoListResp
    /\ closeArg \in RegConns
    /\ regHist = <<>>
    /\ fetchSt = "idle"
    /\ fetchData = <<>>
    /\ uiPos = 0
    /\ pdfs = <<>>
    /\ selectedPdf = None
    /\ refreshKey = 0

\* close(ws) { clients.delete(ws) }
CloseCall ==
    /\ Len(regHist) < MaxCloses
    /\ clients' = SetDelete(clients, closeArg)
    /\ regHist' = Append(regHist, clients)
    /\ UNCHANGED <<dir, broken, dirOk, mtime, pending, nEvents, st, inbox,
                   expect, last>>
    /\ UNCHANGED gatewayVars
    /\ UNCHANGED <<scanOut, listResp, closeArg, uiVars>>

NextRegistry == CloseCall

SpecRegistry == InitRegistry /\ [][NextRegistry]_vars

----------------------------------------------------------------------------
(* The frontend (src/src/App.tsx): one App component, mounted once.  Its   *)
(* effect runs after the first render, sends fetch("/api/pdfs") and opens  *)
(* the WebSocket UiConn; the handlers it installs are never replaced (the  *)
(* effect's dependency list is empty).                                     *)

UiConn == "c1"
UiNames == {APdf, BPdf}

\* `selectedPdf` as the effect's handlers see it: the value of the render
\* the effect belongs to, the first one, where the state is its initial null
CapturedSelectedPdf == None

\* !selectedPdf: null or the empty string
Falsy(sel) == sel = None \/ sel[1] = <<>>

\* setSelectedPdf(current => ...) of the pdfs-updated branch, always taking
\* the first file
KeepOrFirst_AlwaysFirst(current, fs) ==
    IF Len(fs) > 0 THEN Some(fs[1].name) ELSE None

\* setSelectedPdf(current => ...) of the pdfs-updated branch
KeepOrFirst(current, fs) ==
    LET stillExists == \E i \in 1..Len(fs) : Some(fs[i].name) = current
    IN  IF ~stillExists
        THEN (IF Len(fs) > 0 THEN Some(fs[1].name) ELSE None)
        ELSE current

UiDid(op) == [op |-> op, filename |-> None, raised |-> FALSE]

\* the server answers the fetch
ServeList ==
    /\ fetchSt = "sent"
    /\ fetchData' = ListRoute(dir, broken, dirOk, mtime)
    /\ fetchSt' = "replied"
    /\ last' = Other
    /\ UNCHANGED <<dir, broken, dirOk, mtime, pending, nEvents, st, clients,
                   inbox, expect>>
    /\ UNCHANGED <<scanOut, reqName, files, resp, listResp, registryVars>>
    /\ UNCHANGED <<uiPos, pdfs, selectedPdf, refreshKey>>

\* .then(data => { setPdfs(..); if (.. && !selectedPdf) setSelectedPdf(..) })
FetchThen ==
    /\ fetchSt = "replied"
    /\ fetchSt' = "done"
    /\ pdfs' = fetchData.files
    /\ selectedPdf' =
          IF Len(fetchData.files) > 0 /\ Falsy(CapturedSelectedPdf)
          THEN Some(fetchData.files[1].name)
          ELSE selectedPdf
    /\ last' = UiDid("fetch")
    /\ UNCHANGED <<dir, broken, dirOk, mtime, pending, nEvents, st, clients,
                   inbox, expect>>
    /\ UNCHANGED <<scanOut, reqName, files, resp, listResp, registryVars>>
    /\ UNCHANGED <<fetchData, uiPos, refreshKey>>

\* ws.onmessage for the oldest message not yet handled; JSON.parse gives
\* back the value the server passed to JSON.stringify
OnMessage ==
    /\ uiPos < Len(inbox[UiConn])
    /\ LET msg == inbox[UiConn][uiPos + 1]
       IN  IF msg.type = "pdfs-updated"
           THEN /\ pdfs' = msg.files
                /\ selectedPdf' = KeepOrFirst(selectedPdf, msg.files)
                /\ UNCHANGED refreshKey
           ELSE IF msg.type = "pdf-changed"
                   /\ Some(msg.name) = CapturedSelectedPdf
           THEN /\ refreshKey' = refreshKey + 1
                /\ UNCHANGED <<pdfs, selectedPdf>>
           ELSE UNCHANGED <<pdfs, selectedPdf, refreshKey>>
    /\ uiPos' = uiPos + 1
    /\ last' = UiDid("onmessage")
    /\ UNCHANGED <<dir, broken, dirOk, mtime, pending, nEvents, st, clients,
                   inbox, expect>>
    /\ UNCHANGED <<scanOut, reqName, files, resp, listResp, registryVars>>
    /\ UNCHANGED <<fetchSt, fetchData>>

\* onClick={() => setSelectedPdf(pdf.name)} on the i-th tab
Click(i) ==
    /\ i \in 1..Len(pdfs)
    /\ selectedPdf # Some(pdfs[i].name)
    /\ selectedPdf' = Some(pdfs[i].name)
    /\ last' = UiDid("click")
    /\ UNCHANGED <<dir, broken, dirOk, mtime, pending, nEvents, st, clients,
                   inbox, expect>>
    /\ UNCHANGED <<scanOut, reqName, files, resp, listResp, registryVars>>
    /\ UNCHANGED <<fetchSt, fetchData, uiPos, pdfs, refreshKey>>

InitUI ==
    /\ dir \in {{}, {APdf}}
    /\ broken = {}
    /\ dirOk = TRUE
    /\ mtime = [n \in ScanNames |-> 0]
    /\ pending = <<>>
    /\ nEvents = 0
    /\ st = [c \in Conns |-> "new"]
    /\ clients = <<>>
    /\ inbox = [c \in Conns |-> <<>>]
    /\ expect = [c \in Conns |-> <<>>]
    /\ last = Other
    /\ scanOut = NoScan
    /\ reqName = <<>>
    /\ files = {}
    /\ resp = NoResp
    /\ listResp = NoListResp
    /\ closeArg = "c1"
    /\ regHist = <<>>
    /\ fetchSt = "sent"
    /\ fetchData = NoListResp
    /\ uiPos = 0
    /\ pdfs = <<>>
    /\ selectedPdf = None
    /\ refreshKey = 0

NextUI ==
    \/ ServeList
    \/ FetchThen
    \/ WsOpen(UiConn)
    \/ OnMessage
    \/ \E i \in 1..Cardinality(UiNames) : Click(i)
    \/ WatchCallback
    \/ \E n \in UiNames : WriteFile(n)
    \/ \E n \in UiNames : RemoveFile(n)

SpecUI == InitUI /\ [][NextUI]_vars

----------------------------------------------------------------------------
(* GET /api/pdf/:name on its own: one request, over every name of ReqNames *)
(* and every set of existing files that matters to it                      *)

InitGateway ==
    /\ dir = {}
    /\ broken = {}
    /\ dirOk = TRUE
    /\ mtime = [n \in ScanNames |-> 0]
    /\ pending = <<>>
    /\ nEvents = 0
    /\ st = [c \in Conns |-> "new"]
    /\ clients = <<>>
    /\ inbox = [c \in Conns |-> <<>>]
    /\ expect = [c \in Conns |-> <<>>]
    /\ last = Other
    /\ scanOut = NoScan
    /\ reqName \in ReqNames
    /\ files \in SUBSET Candidates(reqName)
    /\ resp = NoResp
    /\ InitOther

HandleFile ==
    /\ resp.status = 0
    /\ resp' = FileRoute(reqName)
    /\ UNCHANGED <<reqName, files, scanOut>>
    /\ UNCHANGED engineVars
    /\ UNCHANGED otherVars

NextGateway == HandleFile

SpecGateway == InitGateway /\ [][NextGateway]_vars

----------------------------------------------------------------------------
(* Claims about the watcher's reaction and the registry (Spec)             *)

\* a step that is one run of the watch callback, for the notification
\* Head(pending)
IsReaction == pending # <<>> /\ pending' = Tail(pending)

\* the two messages of the reaction to the notification at the head
Pair == <<PdfsUpdated(listPdfs), PdfChanged(Head(pending).filename[1])>>

IsPdfNotification ==
    /\ Head(pending).filename # <<>>
    /\ EndsWith(Head(pending).filename[1], DotPdf)

RECURSIVE IsSubseq(_, _)
IsSubseq(a, b) ==
    IF a = <<>> THEN TRUE
    ELSE IF b = <<>> THEN FALSE
    ELSE IF Head(a) = Head(b) THEN IsSubseq(Tail(a), Tail(b))
    ELSE IsSubseq(a, Tail(b))

C7_NonQualifyingIsSilent ==
    [][(IsReaction /\ ~IsPdfNotification) =>
         (inbox' = inbox /\ clients' = clients)]_vars

C7_Witness ==
    /\ last.op = "watch"
    /\ last.filename = Some(NTxt)
    /\ \E c \in Range(clients) : st[c] = "open"

C9_RegistryIsOpenedNotClosed ==
    /\ Range(clients) = {c \in Conns : st[c] \in {"open", "stale"}}
    /\ Len(clients) = Cardinality(Range(clients))

C9_Witness ==
    \E c1, c2 \in Conns :
        /\ st[c1] = "closed"
        /\ st[c2] = "open"
        /\ clients = <<c2>>
        /\ inbox[c2] # <<>>

\* C10: an observer has received only messages of reactions that ran while
\* it was registered: none from before its open handler ran, none from
\* after its close handler ran.
C10_NoReplay ==
    \A c \in Conns :
        /\ IsSubseq(inbox[c], expect[c])
        /\ st[c] = "new" => inbox[c] = <<>>

C10_Witness ==
    \E c1, c2 \in Conns :
        /\ st[c1] = "closed" /\ Len(inbox[c1]) = 2 /\ inbox[c1] = expect[c1]
        /\ st[c2] = "open" /\ Len(inbox[c2]) = 2 /\ inbox[c2] = expect[c2]
        /\ inbox[c1] # inbox[c2]

----------------------------------------------------------------------------
(* Claims about listPdfs (SpecScan)                                        *)

\* C3: when stat fails for one matching entry, every other ".pdf" entry
\* whose stat succeeds is still in the returned snapshot.
C3_OnlyTheFailingEntryIsExcluded ==
    (scanOut.done /\ dirOk) =>
        \A f \in dir :
            (EndsWith(f, DotPdf) /\ f \notin broken) =>
                \E i \in 1..Len(scanOut.out) : scanOut.out[i].name = f

----------------------------------------------------------------------------
(* Claims about GET /api/pdf/:name (SpecGateway)                           *)

\* C4: a 200 is returned only for a decoded name that ends in ".pdf", holds
\* no path separator and no "..", and the file served is the entry of the
\* root with that name.
C4_ServesOnlyFromTheRoot ==
    resp.status = 200 =>
        LET name == decodeURIComponent(reqName).value
        IN  /\ decodeURIComponent(reqName).ok
            /\ EndsWith(name, DotPdf)
            /\ \A i \in 1..Len(name) : name[i] # "/"
            /\ \A i \in 1..(Len(name) - 1) : ~(name[i] = "." /\ name[i + 1] = ".")
            /\ resp.path = PDF_DIR \o <<name>>
            /\ resp.path \in files

C4_Witness ==
    /\ resp.status = 200
    /\ \E i \in 1..Len(reqName) : reqName[i] = "%"

\* the name a request asks for: the parameter percent-decoded, or the
\* parameter itself when it holds a "%" that begins no escape
C5_RequestedName ==
    IF decodeURIComponent(reqName).ok THEN decodeURIComponent(reqName).value
    ELSE reqName

\* C5: every request is classified: 400 for a name that does not end in
\* ".pdf" or holds a separator or "..", whether or not a file exists; 404
\* for a valid name with no file; 200 for a valid name whose file is in the
\* root.
C5_EveryRequestIsClassified ==
    resp.status # 0 =>
        LET name == C5_RequestedName
            bad == \/ ~EndsWith(name, DotPdf)
                   \/ \E i \in 1..Len(name) : name[i] = "/"
                   \/ \E i \in 1..(Len(name) - 1) :
                         name[i] = "." /\ name[i + 1] = "."
        IN  resp.status = IF bad THEN 400
                          ELSE IF PDF_DIR \o <<name>> \in files THEN 200
                          ELSE 404

\* C6: every request ends in 200, 400 or 404.
C6_OnlyTheThreeResponses ==
    resp.status # 0 => resp.status \in {200, 400, 404}


----------------------------------------------------------------------------
(* Claims about the scan's failures and its order (SpecScan)               *)

\* C11: the scan never raises: of a directory that is missing or cannot be
\* read it returns the empty sequence, and the list endpoint then answers
\* 200 with an empty list of files.
C11_UnreadableDirectoryScansEmpty ==
    ~dirOk =>
        /\ scanOut.done => scanOut.out = <<>>
        /\ listResp # NoListResp =>
               listResp.status = 200 /\ listResp.files = <<>>

\* an unreadable directory that holds a PDF has been scanned and listed
C11_Witness ==
    /\ ~dirOk /\ APdf \in dir
    /\ scanOut.done
    /\ listResp.status = 200

\* the characters of the names in code-unit order, the order of a
\* case-sensitive comparison: "." < "B" < "a" < "b" < ...
CodeUnits == <<".", "B", "a", "b", "d", "f", "n", "p", "t", "x">>
CodeUnit(ch) == CHOOSE i \in 1..Len(CodeUnits) : CodeUnits[i] = ch

RECURSIVE LexLess(_, _)
LexLess(a, b) ==
    IF b = <<>> THEN FALSE
    ELSE IF a = <<>> THEN TRUE
    ELSE IF CodeUnit(Head(a)) # CodeUnit(Head(b))
         THEN CodeUnit(Head(a)) < CodeUnit(Head(b))
         ELSE LexLess(Tail(a), Tail(b))

\* C12: of every readable directory the scan returns the entries whose name
\* ends in ".pdf", all of them and no others, each name once, in ascending
\* case-sensitive lexicographic order of the names.
C12_ExactlyThePdfsInCaseSensitiveOrder ==
    (scanOut.done /\ dirOk) =>
        /\ {scanOut.out[i].name : i \in 1..Len(scanOut.out)}
              = {f \in dir : EndsWith(f, DotPdf)}
        /\ \A i, j \in 1..Len(scanOut.out) :
              i < j => LexLess(scanOut.out[i].name, scanOut.out[j].name)

----------------------------------------------------------------------------
(* Claims about the close handler on its own (SpecRegistry)                *)

\* the registry after the i-th call of the close handler
AfterClose(i) == IF i < Len(regHist) THEN regHist[i + 1] ELSE clients

\* C13: unregistering an observer that is not in the registry (never
\* registered, or already removed) leaves the registry as it was, and a
\* second unregistration of the same observer changes nothing.
C13_UnregisterOfAbsentIsNoOp ==
    \A i \in 1..Len(regHist) :
        /\ closeArg \notin Range(regHist[i]) => AfterClose(i) = regHist[i]
        /\ i > 1 => AfterClose(i) = regHist[i]

\* a registered observer has been unregistered twice and others remain
C13_Witness ==
    /\ Len(regHist) = 2
    /\ closeArg \in Range(regHist[1])
    /\ clients # <<>>

----------------------------------------------------------------------------
(* Further claims about the reaction and the registry (Spec)               *)

C17_BroadcastKeepsTheRegistry ==
    [][/\ IsReaction => clients' = clients
       /\ \A c \in Range(clients) :
             c \notin Range(clients') => st[c] # "closed" /\ st'[c] = "closed"]_vars

\* a send to a stale observer has failed and the observer is still registered
C17_Witness ==
    /\ last.op = "watch" /\ last.raised
    /\ \E c \in Range(clients) : st[c] = "stale"

----------------------------------------------------------------------------
(* Claims about the frontend (SpecUI)                                      *)

IsOnMessage == uiPos' = uiPos + 1

\* the message that onmessage handles in this step
Msg == inbox[UiConn][uiPos + 1]

FileNames(fs) == {fs[i].name : i \in 1..Len(fs)}

\* C15: when the frontend handles a pdf-changed message that names the PDF
\* it is showing, whoever selected it, the refresh key goes up by one.
C15_ChangeOfViewedPdfRefreshes ==
    [][(IsOnMessage /\ Msg.type = "pdf-changed" /\ selectedPdf = Some(Msg.name))
         => refreshKey' = refreshKey + 1]_vars

\* the fetch response and every pushed message have been handled, the
\* socket is open and no notification waits for the watch callback
Settled ==
    /\ fetchSt = "done"
    /\ st[UiConn] = "open"
    /\ pending = <<>>
    /\ uiPos = Len(inbox[UiConn])

\* C16: once the frontend has handled its fetch response and every pushed
\* message, and nothing more is under way, the list it shows is what a
\* fresh scan returns.
C16_SettledListIsAFreshScan == Settled => pdfs = listPdfs

\* C19: the selected PDF is null or the name of a file in the frontend's list.
C19_SelectionIsInTheList ==
    selectedPdf = None \/ selectedPdf[1] \in FileNames(pdfs)

\* C20: handling pdfs-updated replaces the list with the message's files
\* and keeps the selection if it names one of them; if not, the selection
\* becomes the first of them, or null when there is none.
C20_PdfsUpdatedKeepsOrResetsSelection ==
    [][(IsOnMessage /\ Msg.type = "pdfs-updated") =>
         /\ pdfs' = Msg.files
         /\ (selectedPdf # None /\ selectedPdf[1] \in FileNames(Msg.files))
               => selectedPdf' = selectedPdf
         /\ (selectedPdf = None \/ selectedPdf[1] \notin FileNames(Msg.files))
               => selectedPdf' = IF Msg.files = <<>> THEN None
                                 ELSE Some(Msg.files[1].name)]_vars

\* a pdfs-updated with two files has just been handled and the selection,
\* the second of them, was kept
C20_Witness ==
    /\ last.op = "onmessage"
    /\ inbox[UiConn][uiPos].type = "pdfs-updated"
    /\ Len(pdfs) = 2
    /\ selectedPdf = Some(pdfs[2].name)
====
